---- MODULE Spec2Model ----
(***************************************************************************)
(* Model of beeswarm/server/db/session_persister.py: the SessionPersister  *)
(* greenlet that receives session events from the bus, persists them and   *)
(* correlates honeypot sessions with bait sessions.                         *)
(*                                                                          *)
(* The store is the Session table, keyed by the primary key Session.id.     *)
(* Time is counted in microseconds, the resolution of the '%f' directive.   *)
(* Columns that no operation of the module reads back (source/destination   *)
(* ip and port, received, did_connect, did_login, did_complete, the         *)
(* client's last_activity, the timestamps of authentications and transcript *)
(* entries) are not part of the state.                                      *)
(***************************************************************************)
EXTENDS Integers, Sequences, FiniteSets, TLC

VARIABLES store, pc, cur, last, received, inbox, children

vars == <<store, pc, cur, last, received, inbox, children>>

\* Number of events _run receives, or has waiting on its socket, in one
\* behaviour.
MaxEvents == 3

\* timediff=5, the default of get_matching_session.
timediff == 5

(***************************************************************************)
(* Inputs                                                                   *)
(***************************************************************************)
SESSION_HONEYPOT == "SESSION_HONEYPOT"
SESSION_CLIENT == "SESSION_CLIENT"
Topics == {SESSION_HONEYPOT, SESSION_CLIENT, "OTHER"}

\* Session identifiers, in the order in which new ones are handed out.
IdSeq == <<"s1", "s2", "s3">>

\* Rows of the Honeypot and Client tables (created elsewhere, only read here).
Honeypots == {"h1", "h2"}
Clients == {"c1"}

\* Python's None.
None == "None"

\* A timestamp string 'YYYY-MM-DDTHH:MM:<sec>.<frac>': the seconds and the
\* digits written after the point.
TS(sec, frac) == [sec |-> sec, frac |-> frac]
T0 == TS(0, <<0>>)
TimestampStrings ==
    {T0, TS(3, <<0>>), TS(5, <<0, 0, 0>>), TS(5, <<0, 0, 1>>), TS(0, <<>>)}

\* Entries of data['login_attempts']; username and password are optional keys.
RA1 == [username |-> "u", password |-> "p", successful |-> TRUE]
RA2 == [username |-> "u", password |-> "p", successful |-> FALSE]
RA3 == [password |-> "p", successful |-> TRUE]
LoginAttempts == {<<RA1>>, <<RA2>>, <<>>, <<RA3, RA1>>}

TR1 == [direction |-> "in", data |-> "x"]
TR2 == [direction |-> "out", data |-> "y"]
Transcripts == {<<TR1>>, <<TR2, TR1>>, <<>>}

\* The payload of a honeypot event and of a bait event, with the keys that
\* persist_session reads for each: data['transcript'] on the honeypot branch
\* (line 85), data['client_id'] and data['did_complete'] on the bait branch
\* (lines 97-105).
HoneypotData(id) ==
    [id |-> id, timestamp |-> T0, protocol |-> "ssh", honeypot_id |-> "h1",
     login_attempts |-> <<RA1>>, transcript |-> <<TR1>>]

BaitData(id) ==
    [id |-> id, timestamp |-> T0, protocol |-> "ssh", honeypot_id |-> "h1",
     login_attempts |-> <<RA1>>, client_id |-> "c1", did_complete |-> TRUE]

BaseData(topic, id) ==
    IF topic = SESSION_CLIENT THEN BaitData(id) ELSE HoneypotData(id)

Without(d, key) == [k \in DOMAIN d \ {key} |-> d[k]]

With(d, key, val) == [k \in DOMAIN d \cup {key} |-> IF k = key THEN val ELSE d[k]]

\* The payloads of the model: the base payload with at most one field changed,
\* the bait payload that is incomplete and names an unknown client, and the
\* bait payload that carries a transcript of its own.
Payloads(topic, id) ==
    LET d == BaseData(topic, id) IN
    {d}
    \cup {[d EXCEPT !.timestamp = t] : t \in TimestampStrings}
    \cup {[d EXCEPT !.protocol = "http"]}
    \cup {[d EXCEPT !.honeypot_id = h] : h \in {"h2", "hx", None}}
    \cup {Without(d, "honeypot_id")}
    \cup {[d EXCEPT !.login_attempts = l] : l \in LoginAttempts}
    \cup (IF topic = SESSION_CLIENT
          THEN {[d EXCEPT !.client_id = "cx"], [d EXCEPT !.did_complete = FALSE],
                [d EXCEPT !.client_id = "cx", !.did_complete = FALSE],
                With(d, "transcript", <<TR2>>)}
          ELSE {[d EXCEPT !.transcript = t] : t \in Transcripts})

\* The first identifier the store st does not hold, if there is one.
\* Identifiers are only ever compared for equality, so which unused one a
\* message carries makes no difference.
FreshIds(st) ==
    {IdSeq[j] : j \in {i \in 1..Len(IdSeq) :
        IdSeq[i] \notin DOMAIN st /\ \A k \in 1..(i - 1) : IdSeq[k] \in DOMAIN st}}

\* A bus message: '<topic> <payload>'. encoding tells how the payload bytes
\* read: as UTF-8 JSON, as JSON that is not valid UTF-8, or as no JSON at all.
\* The messages the bus may deliver when the store is st: a message is the
\* base message with one thing changed, which is a field of the payload, the
\* encoding, or the identifier being one that st already holds.
MessagesOn(t, st) ==
    {[topic |-> t, encoding |-> "utf8", data |-> d] :
        d \in UNION {Payloads(t, i) : i \in FreshIds(st)}}
    \cup {[topic |-> t, encoding |-> e, data |-> BaseData(t, i)] :
        e \in {"latin1", "invalid"}, i \in FreshIds(st)}
    \cup {[topic |-> t, encoding |-> "utf8", data |-> BaseData(t, i)] :
        i \in DOMAIN st}

Messages(st) == UNION {MessagesOn(t, st) : t \in Topics}

(***************************************************************************)
(* Pure helpers                                                             *)
(***************************************************************************)
Range(s) == {s[i] : i \in 1..Len(s)}

RECURSIVE Pow10(_)
Pow10(n) == IF n = 0 THEN 1 ELSE 10 * Pow10(n - 1)

RECURSIVE DigitsValue(_)
DigitsValue(ds) ==
    IF ds = <<>> THEN 0
    ELSE 10 * DigitsValue(SubSeq(ds, 1, Len(ds) - 1)) + ds[Len(ds)]

\* datetime.strptime(s, '%Y-%m-%dT%H:%M:%S.%f'): '%f' takes one to six digits
\* and pads them on the right; anything else is a ValueError.
strptime_ok(ts) == Len(ts.frac) \in 1..6
strptime(ts) == ts.sec * Pow10(6) + DigitsValue(ts.frac) * Pow10(6 - Len(ts.frac))

timedelta(seconds) == seconds * Pow10(6)

\* dict.get(key, default)
Get(d, key, default) == IF key \in DOMAIN d THEN d[key] ELSE default

extract_auth_entity(auth_data) ==
    [username |-> Get(auth_data, "username", ""),
     password |-> Get(auth_data, "password", ""),
     successful |-> auth_data.successful]

\* json.loads(session_json), with the ISO-8859-1 retry on UnicodeDecodeError.
\* The result is <<error, data>>.
json_loads(msg) ==
    CASE msg.encoding = "utf8" -> <<"ok", msg.data>>
      [] msg.encoding = "latin1" -> <<"ok", msg.data>>
      [] OTHER -> <<"ValueError", msg.data>>

\* Mutant of honeypot_lookup: the query ends in first() instead of one(), so
\* an identifier that names no Honeypot raises nothing.
honeypot_lookup_first(data) ==
    IF "honeypot_id" \notin DOMAIN data THEN "KeyError"
    ELSE IF data.honeypot_id = None THEN "AssertionError"
    ELSE "ok"

\* Lines 80-81: the assertion on data['honeypot_id'] and the Honeypot lookup.
honeypot_lookup(data) ==
    IF "honeypot_id" \notin DOMAIN data THEN "KeyError"
    ELSE IF data.honeypot_id = None THEN "AssertionError"
    ELSE IF data.honeypot_id \notin Honeypots THEN "NoResultFound"
    ELSE "ok"

\* Lines 72-81: what persist_session does before it looks at the topic.
load(msg) ==
    IF json_loads(msg)[1] # "ok" THEN json_loads(msg)[1]
    ELSE honeypot_lookup(json_loads(msg)[2])

\* Mutant of new_session: the transcript of the event is stored whatever the
\* topic.
new_session_any_transcript(data, session_type) ==
    [id |-> data.id,
     discriminator |-> IF session_type = SESSION_HONEYPOT THEN "Session" ELSE "BaitSession",
     classification |-> "pending",
     timestamp |-> strptime(data.timestamp),
     protocol |-> data.protocol,
     honeypot |-> data.honeypot_id,
     authentication |-> [i \in 1..Len(data.login_attempts) |->
                            extract_auth_entity(data.login_attempts[i])],
     transcript |-> IF "transcript" \in DOMAIN data THEN data.transcript ELSE <<>>,
     session_data |-> <<>>]

\* Session() / BaitSession() with the fields of lines 85-93, 100-109, 114-123.
new_session(data, session_type) ==
    [id |-> data.id,
     discriminator |-> IF session_type = SESSION_HONEYPOT THEN "Session" ELSE "BaitSession",
     classification |-> "pending",
     timestamp |-> strptime(data.timestamp),
     protocol |-> data.protocol,
     honeypot |-> data.honeypot_id,
     authentication |-> [i \in 1..Len(data.login_attempts) |->
                            extract_auth_entity(data.login_attempts[i])],
     transcript |-> IF session_type = SESSION_HONEYPOT THEN data.transcript ELSE <<>>,
     session_data |-> <<>>]

\* Mutant of add_error: a used identifier is not rejected.
add_error_no_key(data, st) ==
    IF ~strptime_ok(data.timestamp) THEN "ValueError" ELSE "ok"

\* Lines 116 and 125-126: the timestamp is parsed, then the session is added
\* and committed; the primary key rejects an identifier that is in use.
add_error(data, st) ==
    IF ~strptime_ok(data.timestamp) THEN "ValueError"
    ELSE IF data.id \in DOMAIN st THEN "IntegrityError"
    ELSE "ok"

add(session, st) ==
    [k \in DOMAIN st \cup {session.id} |-> IF k = session.id THEN session ELSE st[k]]

(***************************************************************************)
(* get_matching_session                                                     *)
(***************************************************************************)
\* Mutant of basic_filter: the discriminator is not compared.
basic_filter_any_kind(m, session) ==
    /\ m.protocol = session.protocol
    /\ m.honeypot = session.honeypot
    /\ m.id # session.id

\* Lines 161-163 and 166: protocol, honeypot, discriminator, id.
basic_filter(m, session) ==
    /\ m.protocol = session.protocol
    /\ m.honeypot = session.honeypot
    /\ m.discriminator # session.discriminator
    /\ m.id # session.id

\* Mutant of time_filter: the bounds of the window are exclusive.
time_filter_exclusive(m, session) ==
    /\ m.timestamp > session.timestamp - timedelta(timediff)
    /\ m.timestamp < session.timestamp + timedelta(timediff)

\* Lines 154-155 and 164-165.
time_filter(m, session) ==
    /\ m.timestamp >= session.timestamp - timedelta(timediff)
    /\ m.timestamp <= session.timestamp + timedelta(timediff)

\* Mutant of auth_equal: the success flag is not compared.
auth_equal_no_flag(session_auth, honey_auth) ==
    /\ session_auth.username = honey_auth.username
    /\ session_auth.password = honey_auth.password

\* Lines 174-176.
auth_equal(session_auth, honey_auth) ==
    /\ session_auth.username = honey_auth.username
    /\ session_auth.password = honey_auth.password
    /\ session_auth.successful = honey_auth.successful

\* Lines 172-179: some pair of authentications is equal.
auth_pair(potential_match, session) ==
    \E i \in 1..Len(session.authentication) :
        \E j \in 1..Len(potential_match.authentication) :
            auth_equal(potential_match.authentication[j], session.authentication[i])

\* Lines 160-166: the rows the query selects.
query(session, st) ==
    {k \in DOMAIN st : basic_filter(st[k], session) /\ time_filter(st[k], session)}

\* The query has no ORDER BY: the rows come in any order.
Enumerations(S) ==
    {q \in [1..Cardinality(S) -> S] : Range(q) = S}

\* Lines 158 and 170-181: the loop over the rows. match is <<>> for None.
RECURSIVE scan(_, _, _, _, _)
scan(sessions, session, st, i, match) ==
    IF i > Len(sessions) THEN match
    ELSE scan(sessions, session, st, i + 1,
              IF auth_pair(st[sessions[i]], session) THEN <<sessions[i]>> ELSE match)

\* Mutant of get_matching_session: the loop stops at the first match.
RECURSIVE scan_first(_, _, _, _)
scan_first(sessions, session, st, i) ==
    IF i > Len(sessions) THEN <<>>
    ELSE IF auth_pair(st[sessions[i]], session) THEN <<sessions[i]>>
    ELSE scan_first(sessions, session, st, i + 1)

get_matching_session_first(session, st, sessions) ==
    scan_first(sessions, session, st, 1)

get_matching_session(session, st, sessions) ==
    scan(sessions, session, st, 1, <<>>)

(***************************************************************************)
(* merge_bait_and_session                                                   *)
(***************************************************************************)
\* Mutant of merge_bait_and_session: the honeypot session is labelled like
\* the bait session instead of being deleted.
merge_bait_and_session_label_both(honeypot_session, bait_session, st) ==
    [k \in DOMAIN st |->
        IF k = bait_session.id
        THEN [bait_session EXCEPT !.classification = "bait_session",
                                  !.transcript = honeypot_session.transcript,
                                  !.session_data = honeypot_session.session_data]
        ELSE IF k = honeypot_session.id
        THEN [honeypot_session EXCEPT !.classification = "bait_session"]
        ELSE st[k]]

\* Mutant of merge_bait_and_session: the timestamp and the authentications
\* of the honeypot session are copied as well.
merge_bait_and_session_copy_all(honeypot_session, bait_session, st) ==
    [k \in DOMAIN st \ {honeypot_session.id} |->
        IF k = bait_session.id
        THEN [bait_session EXCEPT !.classification = "bait_session",
                                  !.transcript = honeypot_session.transcript,
                                  !.session_data = honeypot_session.session_data,
                                  !.timestamp = honeypot_session.timestamp,
                                  !.authentication = honeypot_session.authentication]
        ELSE st[k]]

\* Mutant of merge_bait_and_session: the transcript is appended to.
merge_bait_and_session_append(honeypot_session, bait_session, st) ==
    [k \in DOMAIN st \ {honeypot_session.id} |->
        IF k = bait_session.id
        THEN [bait_session EXCEPT !.classification = "bait_session",
                                  !.transcript = bait_session.transcript \o honeypot_session.transcript,
                                  !.session_data = honeypot_session.session_data]
        ELSE st[k]]

merge_bait_and_session(honeypot_session, bait_session, st) ==
    [k \in DOMAIN st \ {honeypot_session.id} |->
        IF k = bait_session.id
        THEN [bait_session EXCEPT !.classification = "bait_session",
                                  !.transcript = honeypot_session.transcript,
                                  !.session_data = honeypot_session.session_data]
        ELSE st[k]]

\* Mutant of correlate: the just-ingested session is always passed as the
\* honeypot session.
correlate_ingested_first(session_type, session, match, st) ==
    IF match = <<>> THEN st
    ELSE merge_bait_and_session(session, st[match[1]], st)

\* Lines 128-135: the session in the role its type gives it.
correlate(session_type, session, match, st) ==
    IF match = <<>> THEN st
    ELSE IF session_type = SESSION_HONEYPOT
         THEN merge_bait_and_session(session, st[match[1]], st)
         ELSE merge_bait_and_session(st[match[1]], session, st)

\* The rows of the tables of Authentication and Transcript: children maps a
\* row to the identifier of the session that owns it. A row is named by the
\* number of the event that created it, its table and its place in the list.
Row(n, table, i) == [ev |-> n, table |-> table, i |-> i]

\* Lines 85-93, 107-109: the entries appended to the session of event n,
\* committed with it at lines 125-126.
child_rows(session, n) ==
    [r \in {Row(n, "authentication", i) : i \in 1..Len(session.authentication)}
            \cup {Row(n, "transcript", i) : i \in 1..Len(session.transcript)}
        |-> session.id]

\* Mutant of reparent: the transcript entries stay with the honeypot session.
reparent_none(h, b, ch) ==
    [r \in DOMAIN ch |->
        IF r.table = "transcript" /\ ch[r] = b THEN None ELSE ch[r]]

\* Line 188: the transcript entries of the honeypot session h become those of
\* the bait session b; the entries b had are no longer in its collection.
reparent(h, b, ch) ==
    [r \in DOMAIN ch |->
        IF r.table = "transcript" /\ ch[r] = h THEN b
        ELSE IF r.table = "transcript" /\ ch[r] = b THEN None
        ELSE ch[r]]

\* Lines 128-135 on the rows: which session is h and which is b.
correlate_rows(session_type, id, match, ch) ==
    IF match = <<>> THEN ch
    ELSE IF session_type = SESSION_HONEYPOT
         THEN reparent(id, match[1], ch)
         ELSE reparent(match[1], id, ch)

\* Deleting a session deletes the entries it owns, and an entry that lost
\* its owner is deleted: the rows left are those owned by a session of st.
cascade(st, ch) ==
    [r \in {x \in DOMAIN ch : ch[x] \in DOMAIN st} |-> ch[r]]

\* Line 43: the number of sessions the first delete removes.
pending_deleted(st) ==
    Cardinality({k \in DOMAIN st : st[k].classification = "pending"})

\* Mutant of startup_cleanup: every session is deleted, whatever the argument.
startup_cleanup_all(clear_sessions, st) ==
    [k \in {} |-> st[k]]

\* Lines 42-49: the cleanup of __init__.
startup_cleanup(clear_sessions, st) ==
    IF clear_sessions THEN [k \in {} |-> st[k]]
    ELSE [k \in {i \in DOMAIN st : st[i].classification # "pending"} |-> st[k]]

(***************************************************************************)
(* State machine                                                            *)
(***************************************************************************)
\* What the last step did: op is the step, error the exception that ended
\* _run, S the session just persisted, sessions the rows of the query in the
\* order they came, match the row get_matching_session returned (as it was
\* before the merge), config the answer of the config actor when one was asked
\* for, ref the value of data['honeypot_id'] when the payload has one, cleanup
\* the argument clear_sessions of __init__ and the number of pending sessions
\* it deleted (the number line 45 logs).
Last(op, topic, error, S, sessions, match) ==
    [op |-> op, topic |-> topic, error |-> error, S |-> S,
     sessions |-> sessions, match |-> match, config |-> <<>>, ref |-> <<>>,
     cleanup |-> <<>>]

\* data['honeypot_id'] as line 80 reads it: <<>> when json.loads failed or the
\* key is missing.
Ref(msg) ==
    IF json_loads(msg)[1] = "ok" /\ "honeypot_id" \in DOMAIN json_loads(msg)[2]
    THEN <<json_loads(msg)[2].honeypot_id>>
    ELSE <<>>

Init ==
    /\ store = [k \in {} |-> None]
    /\ pc = "waiting"
    /\ cur = <<>>
    /\ last = Last("init", "", "", <<>>, <<>>, <<>>)
    /\ received = 0
    /\ inbox = 0
    /\ children = [r \in {} |-> None]

\* Mutant of Idle: a message is taken whenever one waits on the socket.
Idle_any_time == inbox > 0

\* Lines 61-66: the loop is at its poll and the socket has a message. inbox
\* is the number of messages published to the subscriber socket and not yet
\* received.
Idle == pc = "waiting" /\ inbox > 0

\* The publisher sends a message; it waits on the socket of line 51 until
\* _run receives it.
Publish ==
    /\ received + inbox < MaxEvents
    /\ inbox' = inbox + 1
    /\ UNCHANGED <<store, pc, cur, last, received, children>>

\* _run receives a message; persist_session raises before it reaches the
\* topic (lines 72-81). Nothing catches the exception: the greenlet ends.
RecvRaise(msg) ==
    /\ Idle
    /\ inbox' = inbox - 1
    /\ load(msg) # "ok"
    /\ pc' = "dead"
    /\ last' = [Last("raise", msg.topic, load(msg), <<>>, <<>>, <<>>)
                    EXCEPT !.ref = Ref(msg)]
    /\ received' = received + 1
    /\ UNCHANGED <<store, cur, children>>

\* Lines 110-112: neither topic.
RecvUnknown(msg) ==
    /\ Idle
    /\ inbox' = inbox - 1
    /\ load(msg) = "ok"
    /\ msg.topic \notin {SESSION_HONEYPOT, SESSION_CLIENT}
    /\ last' = [Last("unknown", msg.topic, "", <<>>, <<>>, <<>>)
                    EXCEPT !.ref = Ref(msg)]
    /\ received' = received + 1
    /\ UNCHANGED <<store, pc, cur, children>>

\* Lines 114-126 for the message msg of type msg.topic.
Persist(msg, config) ==
    LET data == json_loads(msg)[2]
        session == new_session(data, msg.topic)
    IN IF add_error(data, store) # "ok"
       THEN /\ pc' = "dead"
            /\ cur' = <<>>
            /\ last' = [Last("raise", msg.topic, add_error(data, store), <<>>, <<>>, <<>>)
                           EXCEPT !.config = config, !.ref = Ref(msg)]
            /\ UNCHANGED <<store, children>>
       ELSE /\ store' = add(session, store)
            /\ children' = children @@ child_rows(session, received')
            /\ pc' = "persisted"
            /\ cur' = <<msg>>
            /\ last' = [Last("persisted", msg.topic, "", <<session>>, <<>>, <<>>)
                           EXCEPT !.config = config, !.ref = Ref(msg)]

\* Lines 83-93, then 114-126.
RecvHoneypot(msg) ==
    /\ Idle
    /\ inbox' = inbox - 1
    /\ load(msg) = "ok"
    /\ msg.topic = SESSION_HONEYPOT
    /\ received' = received + 1
    /\ Persist(msg, <<>>)

\* Lines 94-96: the request to the config actor is sent; the greenlet waits
\* for the reply.
RecvClient(msg) ==
    /\ Idle
    /\ inbox' = inbox - 1
    /\ load(msg) = "ok"
    /\ msg.topic = SESSION_CLIENT
    /\ received' = received + 1
    /\ pc' = "config"
    /\ cur' = <<msg>>
    /\ last' = [Last("request", msg.topic, "", <<>>, <<>>, <<>>)
                    EXCEPT !.ref = Ref(msg)]
    /\ UNCHANGED <<store, children>>

\* Mutant of gate: did_complete is not looked at.
gate_flag_only(data, ignore_failed_bait_sessions) ==
    ignore_failed_bait_sessions

\* Line 97: the gate.
gate(data, ignore_failed_bait_sessions) ==
    ~data.did_complete /\ ignore_failed_bait_sessions

\* Line 101.
client_lookup(data) ==
    IF data.client_id \in Clients THEN "ok" ELSE "NoResultFound"

\* Lines 97-109, then 114-126, once the config actor has answered.
ConfigReply(ignore_failed_bait_sessions) ==
    /\ pc = "config"
    /\ UNCHANGED <<received, inbox>>
    /\ LET msg == cur[1]
           data == json_loads(msg)[2]
       IN IF gate(data, ignore_failed_bait_sessions)
          THEN /\ pc' = "waiting"
               /\ cur' = <<>>
               /\ last' = [Last("gated", msg.topic, "", <<>>, <<>>, <<>>)
                              EXCEPT !.config = <<ignore_failed_bait_sessions>>,
                                     !.ref = Ref(msg)]
               /\ UNCHANGED <<store, children>>
          ELSE IF client_lookup(data) # "ok"
          THEN /\ pc' = "dead"
               /\ cur' = <<>>
               /\ last' = [Last("raise", msg.topic, client_lookup(data), <<>>, <<>>, <<>>)
                              EXCEPT !.config = <<ignore_failed_bait_sessions>>,
                                     !.ref = Ref(msg)]
               /\ UNCHANGED <<store, children>>
          ELSE Persist(msg, <<ignore_failed_bait_sessions>>)

\* Lines 128-135: the correlation pass and, on a match, the merge.
Correlate ==
    /\ pc = "persisted"
    /\ UNCHANGED <<received, inbox>>
    /\ LET msg == cur[1]
           session == store[msg.data.id]
       IN \E sessions \in Enumerations(query(session, store)) :
            LET match == get_matching_session(session, store, sessions)
            IN /\ store' = correlate(msg.topic, session, match, store)
               /\ children' = cascade(store', correlate_rows(msg.topic, session.id,
                                                            match, children))
               /\ pc' = "waiting"
               /\ cur' = <<>>
               /\ last' = Last(IF match = <<>> THEN "persist_only" ELSE "merged",
                               msg.topic, "", <<session>>, sessions,
                               IF match = <<>> THEN <<>> ELSE <<store[match[1]]>>)

\* The process is started again: SessionPersister(clear_sessions) runs the
\* cleanup of __init__ and opens a new socket; the message in flight and the
\* messages that waited on the old socket are lost.
Restart(clear_sessions) ==
    /\ store' = startup_cleanup(clear_sessions, store)
    /\ children' = cascade(store', children)
    /\ pc' = "waiting"
    /\ cur' = <<>>
    /\ last' = [Last("restart", "", "", <<>>, <<>>, <<>>)
                    EXCEPT !.cleanup = <<clear_sessions, pending_deleted(store)>>]
    /\ inbox' = 0
    /\ UNCHANGED received

\* The messages _run can receive in the current state.
Deliverable ==
    IF Idle THEN Messages(store) ELSE {}

Next ==
    \/ \E msg \in Deliverable : RecvRaise(msg)
    \/ \E msg \in Deliverable : RecvUnknown(msg)
    \/ \E msg \in Deliverable : RecvHoneypot(msg)
    \/ \E msg \in Deliverable : RecvClient(msg)
    \/ \E answer \in BOOLEAN : ConfigReply(answer)
    \/ Correlate
    \/ \E clear_sessions \in BOOLEAN : Restart(clear_sessions)
    \/ Publish

Spec == Init /\ [][Next]_vars

(***************************************************************************)
(* Vocabulary of the properties                                             *)
(***************************************************************************)
Finished == {"persist_only", "merged"}

\* The step only puts a message on the socket; the loop does not move.
PublishStep == inbox' = inbox + 1

\* The step is the correlation pass of the session just persisted.
CorrelationStep == pc = "persisted" /\ last'.op \in Finished

\* The session the last correlation pass was run for, and the row it matched.
BaseOfLast == last.S[1]
MatchOfLast == last.match[1]

\* The two arguments of the merge the last step executed.
MergedH == IF last.topic = SESSION_HONEYPOT THEN BaseOfLast ELSE MatchOfLast
MergedB == IF last.topic = SESSION_HONEYPOT THEN MatchOfLast ELSE BaseOfLast

Abs(x) == IF x < 0 THEN -x ELSE x

Window == 5 * 1000 * 1000

SharesTuple(a, b) ==
    \E x \in Range(a.authentication), y \in Range(b.authentication) :
        x.username = y.username /\ x.password = y.password /\ x.successful = y.successful

SameService(a, b) == a.protocol = b.protocol /\ a.honeypot = b.honeypot

OppositeKind(a, b) ==
    {a.discriminator, b.discriminator} = {"Session", "BaitSession"}

\* H and B are a matching pair in the sense of the correlator.
MatchingPair(H, B) ==
    /\ H.discriminator = "Session" /\ B.discriminator = "BaitSession"
    /\ H.id # B.id
    /\ SameService(H, B)
    /\ Abs(H.timestamp - B.timestamp) <= Window
    /\ SharesTuple(H, B)

\* B after a merge with H.
Merged(H, B) ==
    [B EXCEPT !.classification = "bait_session", !.transcript = H.transcript,
              !.session_data = H.session_data]

(***************************************************************************)
(* Properties                                                               *)
(***************************************************************************)

\* C1: after persist_session has called merge_bait_and_session(H, B), B is
\* in the store under its identifier with classification bait_session, its
\* transcript and content are those of H, and no session has H's identifier.
MergePostCondition ==
    last.op = "merged" =>
        /\ MergedB.id \in DOMAIN store
        /\ store[MergedB.id].id = MergedB.id
        /\ store[MergedB.id].classification = "bait_session"
        /\ store[MergedB.id].transcript = MergedH.transcript
        /\ store[MergedB.id].session_data = MergedH.session_data
        /\ MergedH.id \notin DOMAIN store

\* C1 witness: a bait session ingested after a honeypot session with the
\* same protocol, honeypot and auth tuple, 3 seconds later, was merged
\* into one that carries the honeypot session's transcript.
MergeReached ==
    /\ last.op = "merged"
    /\ last.topic = SESSION_CLIENT
    /\ MergedB.timestamp - MergedH.timestamp = 3 * 1000 * 1000
    /\ MergedH.transcript # <<>>
    /\ DOMAIN store = {MergedB.id}

\* C2: with exactly a matching pair (H, B) in the store, the correlation pass
\* ends with B alone, merged with H, whichever of the two was ingested last.
OrderIndependence ==
    [][CorrelationStep /\ Cardinality(DOMAIN store) = 2 =>
        \A h, b \in DOMAIN store :
            MatchingPair(store[h], store[b]) =>
                store' = (b :> Merged(store[h], store[b]))]_vars

\* C2 witness: the honeypot session was the one ingested last, and the bait
\* session is what remains.
HoneypotLastMerged ==
    /\ last.op = "merged"
    /\ last.topic = SESSION_HONEYPOT
    /\ BaseOfLast.discriminator = "Session"
    /\ DOMAIN store = {MatchOfLast.id}
    /\ store[MatchOfLast.id].discriminator = "BaitSession"

\* C3: a qualifying session exactly 5 s away from the base session is among
\* the rows and a match is returned; the match is never more than 5 s away;
\* without a match the store stays as it is.
WindowBoundary ==
    [][CorrelationStep =>
        LET S == store[cur[1].data.id] IN
        /\ \A k \in DOMAIN store :
              (/\ OppositeKind(store[k], S) /\ SameService(store[k], S)
               /\ SharesTuple(store[k], S)
               /\ Abs(store[k].timestamp - S.timestamp) = Window)
              => (k \in Range(last'.sessions) /\ last'.match # <<>>)
        /\ last'.match # <<>> =>
              Abs(last'.match[1].timestamp - S.timestamp) <= Window
        /\ (\A k \in DOMAIN store : Abs(store[k].timestamp - S.timestamp) > Window \/ k = S.id)
              => (last'.match = <<>> /\ store' = store)]_vars

\* C3 witness: a match exactly 5 s away was merged.
BoundaryMatched ==
    /\ last.op = "merged"
    /\ Abs(MatchOfLast.timestamp - BaseOfLast.timestamp) = Window

\* C4: the row get_matching_session returns is of the other kind than the
\* base session, so every merge has one honeypot and one bait participant.
CrossKindOnly ==
    last.op = "merged" =>
        /\ MatchOfLast.discriminator # BaseOfLast.discriminator
        /\ MergedH.discriminator = "Session"
        /\ MergedB.discriminator = "BaitSession"

\* C4 witness: a session was ingested while a session of its own kind with
\* the same protocol, honeypot, timestamp and credentials was stored, and
\* nothing was merged.
SameKindTwinUnmatched ==
    /\ last.op = "persist_only"
    /\ \E k \in DOMAIN store :
          /\ k # BaseOfLast.id
          /\ store[k].discriminator = BaseOfLast.discriminator
          /\ SameService(store[k], BaseOfLast)
          /\ store[k].timestamp = BaseOfLast.timestamp
          /\ store[k].authentication = BaseOfLast.authentication
          /\ store[k].authentication # <<>>

\* C5: a returned match shares a (username, password, successful) tuple with
\* the base session; in particular neither has an empty list of attempts.
CredentialEquality ==
    last.op = "merged" =>
        /\ SharesTuple(MatchOfLast, BaseOfLast)
        /\ MatchOfLast.authentication # <<>>
        /\ BaseOfLast.authentication # <<>>

\* C5 witness: one of the rows of the query agreed with the base session on
\* username and password but not on the success flag, and was not matched.
FlagDiffersUnmatched ==
    /\ last.op = "persist_only"
    /\ \E i \in 1..Len(last.sessions) :
          \E x \in Range(store[last.sessions[i]].authentication),
             y \in Range(BaseOfLast.authentication) :
                /\ x.username = y.username
                /\ x.password = y.password
                /\ x.successful # y.successful

\* C6: the match is the last row, in the order the rows came, that shares an
\* auth tuple with the base session, and none only if no row does; one row is
\* merged and every other row stays as it was.
TieBreakLast ==
    [][CorrelationStep =>
        LET S == store[cur[1].data.id]
            rows == last'.sessions
            Qual == {i \in 1..Len(rows) : SharesTuple(store[rows[i]], S)}
        IN /\ Qual = {} => (last'.match = <<>> /\ store' = store)
           /\ Qual # {} =>
                LET i == CHOOSE j \in Qual : \A l \in Qual : l <= j IN
                /\ last'.match = <<store[rows[i]]>>
                /\ Cardinality(DOMAIN store') = Cardinality(DOMAIN store) - 1
                /\ \A j \in 1..Len(rows) :
                      j # i => /\ rows[j] \in DOMAIN store'
                               /\ store'[rows[j]] = store[rows[j]]]_vars

\* C6 witness: two rows qualified; the second was matched and the first is
\* still in the store.
SecondOfTwoMatched ==
    /\ last.op = "merged"
    /\ Len(last.sessions) = 2
    /\ MatchOfLast.id = last.sessions[2]
    /\ last.sessions[1] \in DOMAIN store
    /\ SharesTuple(store[last.sessions[1]], BaseOfLast)

\* C7: whenever the loop is waiting for the next event, no stored session is
\* classified pending.
PendingIsTransient ==
    pc = "waiting" => \A k \in DOMAIN store : store[k].classification # "pending"

\* C8: a bait event with did_complete false is dropped when the config actor
\* answers true: the store is unchanged and no correlation follows. A bait
\* event with did_complete true, or answered false, is not dropped by the
\* gate: it is persisted when its client is stored, its timestamp parses and
\* its identifier is unused, and raises otherwise. A honeypot event causes no
\* config request and is persisted unless persisting it raises.
GateFiltering ==
    [][/\ (pc = "config" /\ last'.op # "restart" /\ ~PublishStep) =>
            LET data == cur[1].data
                answer == last'.config[1]
            IN IF ~data.did_complete /\ answer
               THEN /\ last'.op = "gated"
                    /\ store' = store
                    /\ pc' = "waiting"
               ELSE /\ last'.op \in {"persisted", "raise"}
                    /\ last'.op = "raise" =>
                          last'.error \in {"NoResultFound", "ValueError", "IntegrityError"}
                    /\ (/\ data.client_id \in Clients
                        /\ data.timestamp.frac # <<>>
                        /\ data.id \notin DOMAIN store) => last'.op = "persisted"
                    /\ last'.op = "persisted" =>
                          /\ pc' = "persisted"
                          /\ DOMAIN store' = DOMAIN store \cup {data.id}
                          /\ data.id \notin DOMAIN store
                          /\ store'[data.id].discriminator = "BaitSession"
       /\ (/\ pc = "waiting"
           /\ last'.op # "restart"
           /\ ~PublishStep
           /\ last'.topic = SESSION_HONEYPOT) =>
            /\ last'.op \in {"persisted", "raise"}
            /\ pc' # "config"
            /\ last'.config = <<>>
            /\ last'.op = "persisted" =>
                  /\ pc' = "persisted"
                  /\ Cardinality(DOMAIN store') = Cardinality(DOMAIN store) + 1
                  /\ store'[last'.S[1].id].discriminator = "Session"]_vars

\* C8 witness: a bait event was dropped by the gate.
GateDropped ==
    /\ last.op = "gated"
    /\ last.config = <<TRUE>>
    /\ pc = "waiting"

\* C9: an event whose topic is neither session tag, and whose payload parses,
\* does not end the loop with an exception.
UnknownKindDropped ==
    (last.op = "raise" /\ last.topic \notin {SESSION_HONEYPOT, SESSION_CLIENT})
        => last.error = "ValueError"

\* C10: the processing of an event never ends _run; the loop is there for
\* the next event.
LoopSurvivesFailure ==
    last.op = "raise" => pc = "waiting"

\* A step of _run that receives a message, and the step that goes on after
\* the answer of the config actor.
ReceiveStep ==
    /\ pc = "waiting"
    /\ ~PublishStep
    /\ last'.op \in {"raise", "unknown", "persisted", "request"}
ReplyStep ==
    /\ pc = "config"
    /\ ~PublishStep
    /\ last'.op \in {"raise", "gated", "persisted"}

\* C11 as stated: a bait event whose client_id names no stored Client ends
\* in an error and leaves the store as it was.
UnknownClientRaises ==
    [][(ReplyStep /\ cur[1].data.client_id \notin Clients) =>
            (last'.op = "raise" /\ store' = store)]_vars

\* C11 amended: an event whose honeypot_id is missing, null or names no
\* stored Honeypot raises and leaves the store as it was; so does a bait
\* event whose client_id names no stored Client, unless the gate drops it
\* first, which leaves the store as it was too; every stored session has a
\* honeypot that is stored.
UnresolvedLeavesStore ==
    [][/\ (ReceiveStep /\ (last'.ref = <<>> \/ last'.ref[1] \notin Honeypots)) =>
            /\ last'.op = "raise"
            /\ pc' = "dead"
            /\ store' = store
       /\ (ReplyStep /\ cur[1].data.client_id \notin Clients) =>
            /\ store' = store
            /\ IF ~cur[1].data.did_complete /\ last'.config[1]
               THEN last'.op = "gated"
               ELSE last'.op = "raise" /\ last'.error = "NoResultFound" /\ pc' = "dead"
       /\ \A k \in DOMAIN store' : store'[k].honeypot \in Honeypots]_vars

\* C11 witness: with a session stored, an event that names no stored
\* Honeypot has raised.
UnresolvedHoneypotRaised ==
    /\ last.op = "raise"
    /\ last.ref # <<>>
    /\ last.ref[1] \notin Honeypots \cup {None}
    /\ DOMAIN store # {}

\* The step is a construction of the SessionPersister.
RestartStep == last'.op = "restart" /\ ~PublishStep

NotPending(st) == {k \in DOMAIN st : st[k].classification # "pending"}

\* C12: after the construction with clear_sessions false the store holds
\* exactly the sessions that were not pending, unchanged; with clear_sessions
\* true it holds none; a second cleanup changes nothing.
StartupCleanup ==
    [][RestartStep =>
        /\ last'.cleanup[1] => DOMAIN store' = {}
        /\ ~last'.cleanup[1] =>
              /\ DOMAIN store' = NotPending(store)
              /\ \A k \in DOMAIN store' : store'[k] = store[k]
              /\ last'.cleanup[2] = Cardinality(DOMAIN store \ NotPending(store))
        /\ NotPending(store') = DOMAIN store'
        /\ (last.op = "restart" /\ (~last'.cleanup[1] \/ last.cleanup[1])) => store' = store]_vars

\* C12 witness: a construction with clear_sessions false deleted a pending
\* session and kept another session.
CleanupKeptAndDeleted ==
    /\ last.op = "restart"
    /\ last.cleanup[1] = FALSE
    /\ last.cleanup[2] >= 1
    /\ DOMAIN store # {}

\* An event is being processed.
Processing == pc \in {"config", "persisted"}

MergedAtMostOnce ==
    last.op = "merged" => MergedB.classification = "pending"

Baits(st) == {k \in DOMAIN st : st[k].discriminator = "BaitSession"}

NoContent(b) == b.transcript = <<>> /\ b.session_data = <<>>

\* C15: a BaitSession that is not classified bait_session has no transcript
\* and no content; a BaitSession is stored without them whatever its event
\* carried, and a stored BaitSession changes only in the merge of a
\* correlation pass.
EmptyUntilMerged ==
    [][/\ \A k \in Baits(store) :
             store[k].classification # "bait_session" => NoContent(store[k])
       /\ \A k \in Baits(store') :
             /\ store'[k].classification # "bait_session" => NoContent(store'[k])
             /\ k \notin DOMAIN store => NoContent(store'[k])
             /\ (k \in DOMAIN store /\ store'[k] # store[k]) =>
                    /\ CorrelationStep
                    /\ last'.op = "merged"
                    /\ store'[k].classification = "bait_session"]_vars

\* C15 witness: a bait event that carries a transcript has been persisted,
\* and the BaitSession stored for it is pending and has none.
BaitTranscriptNotStored ==
    /\ pc = "persisted"
    /\ cur[1].topic = SESSION_CLIENT
    /\ "transcript" \in DOMAIN cur[1].data
    /\ cur[1].data.transcript # <<>>
    /\ store[cur[1].data.id].classification = "pending"
    /\ NoContent(store[cur[1].data.id])

\* The rows of one table that the session k owns.
Owned(k, table, ch) == {r \in DOMAIN ch : ch[r] = k /\ r.table = table}

PersistStep == pc \in {"waiting", "config"} /\ last'.op = "persisted" /\ ~PublishStep

\* C17: a session is stored under its identifier, which never changes; the
\* session an event adds has an identifier that was not in use and the
\* sessions already stored are left as they were; a bait event whose
\* identifier is in use, and every event that ends in IntegrityError, leaves
\* the store unchanged; the correlation pass never reads or returns the
\* session it runs for.
IdentifierUnique ==
    [][/\ \A k \in DOMAIN store' : store'[k].id = k
       /\ \A k \in DOMAIN store \cap DOMAIN store' : store'[k].id = store[k].id
       /\ PersistStep =>
             /\ last'.S[1].id \notin DOMAIN store
             /\ DOMAIN store' = DOMAIN store \cup {last'.S[1].id}
             /\ \A k \in DOMAIN store : store'[k] = store[k]
       /\ (ReplyStep /\ cur[1].data.id \in DOMAIN store) =>
             /\ store' = store
             /\ last'.op \in {"gated", "raise"}
       /\ (~PublishStep /\ last'.op = "raise" /\ last'.error = "IntegrityError") =>
             store' = store
       /\ CorrelationStep =>
             /\ \A i \in DOMAIN last'.sessions : last'.sessions[i] # last'.S[1].id
             /\ last'.match # <<>> => last'.match[1].id # last'.S[1].id]_vars

\* C17 witness: a bait event reused the identifier of a stored honeypot
\* session and ended in IntegrityError; the honeypot session is still there.
UsedIdentifierRejected ==
    /\ last.op = "raise"
    /\ last.error = "IntegrityError"
    /\ last.topic = SESSION_CLIENT
    /\ DOMAIN store # {}
    /\ \A k \in DOMAIN store : store[k].discriminator = "Session"

\* C18: a construction with clear_sessions false deletes no session whose
\* event was processed to its end: the only session it may delete is the one
\* persisted by the event whose correlation pass had not run yet.
RestartKeepsResolved ==
    [][(RestartStep /\ ~last'.cleanup[1]) =>
          \A k \in DOMAIN store :
              \/ k \in DOMAIN store' /\ store'[k] = store[k]
              \/ pc = "persisted" /\ k = cur[1].data.id]_vars

\* C19: every stored session classified bait_session is a BaitSession, and
\* a stored session is classified pending or bait_session.
BaitLabelOnBaitOnly ==
    \A k \in DOMAIN store :
        /\ store[k].classification \in {"pending", "bait_session"}
        /\ store[k].classification = "bait_session" =>
               store[k].discriminator = "BaitSession"

\* C19 witness: the bait session was the one ingested last; it carries the
\* label, and a honeypot session that was not its match is stored pending.
BaitLastLabelled ==
    /\ last.op = "merged"
    /\ last.topic = SESSION_CLIENT
    /\ store[BaseOfLast.id].classification = "bait_session"
    /\ \E k \in DOMAIN store :
          /\ store[k].discriminator = "Session"
          /\ store[k].classification = "pending"

Count(st) == Cardinality(DOMAIN st)

\* C20: the steps of one event change the store in two places at most. The
\* step that persists adds one session and leaves the others as they were;
\* the correlation pass without a match changes nothing; with a match it
\* deletes the HoneypotSession of the pair, changes the BaitSession of the
\* pair but not its identifier, kind, authentications, timestamp, protocol
\* and honeypot, and leaves every other session as it was, so that the
\* event ends with as many sessions as it found; every other step of an
\* event leaves the store as it is.
FrameOfOneEvent ==
    [][\/ PublishStep
       \/ RestartStep
       \/ /\ PersistStep
          /\ Count(store') = Count(store) + 1
          /\ \A k \in DOMAIN store : k \in DOMAIN store' /\ store'[k] = store[k]
       \/ /\ CorrelationStep
          /\ last.op = "persisted"
          /\ last'.S = last.S
          /\ last.S[1].id \in DOMAIN store
          /\ IF last'.op = "persist_only"
             THEN store' = store
             ELSE LET base == last'.S[1]
                      other == last'.match[1]
                      H == IF last'.topic = SESSION_HONEYPOT THEN base ELSE other
                      B == IF last'.topic = SESSION_HONEYPOT THEN other ELSE base
                  IN /\ H.discriminator = "Session"
                     /\ B.discriminator = "BaitSession"
                     /\ store[H.id] = H /\ store[B.id] = B
                     /\ DOMAIN store' = DOMAIN store \ {H.id}
                     /\ Count(store') = Count(store) - 1
                     /\ \A k \in DOMAIN store' \ {B.id} : store'[k] = store[k]
                     /\ store'[B.id].id = B.id
                     /\ store'[B.id].discriminator = B.discriminator
                     /\ store'[B.id].authentication = B.authentication
                     /\ store'[B.id].timestamp = B.timestamp
                     /\ store'[B.id].protocol = B.protocol
                     /\ store'[B.id].honeypot = B.honeypot
       \/ /\ ~PersistStep /\ ~CorrelationStep
          /\ store' = store]_vars

\* C20 witness: a merge of two sessions with different timestamps has run
\* while a third session was stored, and the third session is still there.
MergeBesideThird ==
    /\ last.op = "merged"
    /\ MergedH.timestamp # MergedB.timestamp
    /\ MergedB.id \in DOMAIN store
    /\ Count(store) = 2
    /\ \E k \in DOMAIN store \ {MergedB.id} : store[k].classification = "pending"
====
